---- MODULE Spec2Model ----
(***************************************************************************)
(* Model of the 4P-medicine research tool: the PubMed search script        *)
(* (search_medical_papers.py, run as a program or imported by example.py), *)
(* the Gemini analysis script (analyze_papers.py) and the CSV converter    *)
(* (convert_to_csv.py).  One behaviour is one run of one script; `script`  *)
(* says which.                                                             *)
(*                                                                         *)
(* Python values are tagged records: Str(s) carries a sequence of tokens   *)
(* (a token is a chunk of text; " " is a whitespace token), Num(n) an      *)
(* integer, None is Python's None.  A dict is a TLA+ record whose DOMAIN   *)
(* is its key set.                                                         *)
(***************************************************************************)
EXTENDS Integers, Sequences, FiniteSets, TLC

VARIABLES
    script,          \* which script this run executes
    pc,              \* position in the script
    exc,             \* the uncaught exception that ended the run, or "none"
    args,            \* parsed command line of search_medical_papers.py
    config,          \* the journal configuration load_journal_config returned
    module_globals,  \* global names bound in module search_medical_papers
    journals,        \* the journals argument of search_medical_papers
    query,           \* the esearch query that was sent
    root,            \* the PubmedArticle elements of the parsed efetch body
    idx,             \* loop position (search: element, convert: paper)
    papers,          \* search: the output list; analyze/convert: the loaded JSON
    saved,           \* the medical_papers_*.json file written by the search
    ret,             \* value returned by search_medical_papers
    max_papers,      \* analyze: the max_papers argument
    papers_to_analyze,
    retry_count,
    success,
    inflight,        \* papers whose HTTP request has been issued and not answered
    last_outcome,    \* outcome of the preceding attempt for the current paper
    sent,            \* indices (into papers) of the papers a request was issued for
    attempts,        \* number of requests issued for the current paper
    results,         \* analyze: the results list
    json_out,        \* the 4p_analysis_gemini_*.json file
    relevant_papers, \* analyze: the filtered and sorted list
    markdown,        \* the detailed entries of the Markdown report
    csv_file         \* convert: the rows of the CSV file, or NoFile

vars == <<script, pc, exc, args, config, module_globals, journals, query, root,
          idx, papers, saved, ret, max_papers, papers_to_analyze, retry_count,
          success, inflight, last_outcome, sent, attempts, results, json_out,
          relevant_papers, markdown, csv_file>>

searchVars  == <<args, config, module_globals, journals, query, root, saved, ret>>
analyzeVars == <<max_papers, papers_to_analyze, retry_count, success, inflight,
                 last_outcome, sent, attempts, results, json_out,
                 relevant_papers, markdown>>

-----------------------------------------------------------------------------
(* Bounds of the model *)

MaxArticles == 2     \* PubmedArticle elements in one efetch body
MaxPapers == 2       \* papers in the JSON file given to analyze / convert

-----------------------------------------------------------------------------
(* Python values *)

None == [t |-> "none", s |-> <<>>, n |-> 0]
Str(s) == [t |-> "str", s |-> s, n |-> 0]
Num(k) == [t |-> "int", s |-> <<>>, n |-> k]

IsStr(v) == v.t = "str"

\* str(v) as an f-string renders it
Fmt(v) == IF v.t = "none" THEN <<"None">> ELSE v.s

Min(a, b) == IF a < b THEN a ELSE b
Max(a, b) == IF a > b THEN a ELSE b

RECURSIVE LStrip(_)
LStrip(s) == IF s # <<>> /\ Head(s) = " " THEN LStrip(Tail(s)) ELSE s

RECURSIVE RStrip(_)
RStrip(s) == IF s # <<>> /\ s[Len(s)] = " " THEN RStrip(SubSeq(s, 1, Len(s) - 1)) ELSE s

\* str.strip()
Strip(s) == RStrip(LStrip(s))

\* sep.join(parts), parts a sequence of token sequences
RECURSIVE Join(_, _)
Join(sep, parts) ==
    IF parts = <<>> THEN <<>>
    ELSE IF Len(parts) = 1 THEN parts[1]
    ELSE parts[1] \o sep \o Join(sep, Tail(parts))

\* list[:k] with Python's slice semantics (a negative k counts from the end)
SliceTo(list, k) ==
    IF k >= 0 THEN SubSeq(list, 1, Min(k, Len(list)))
    ELSE SubSeq(list, 1, Max(Len(list) + k, 0))

-----------------------------------------------------------------------------
(* search_medical_papers.py: inputs *)

Lancet == <<"L", "a", "n", "c", "e", "t">>
NEJM == <<"N", " ", "E", "n", "g", "l", ".">>
BMJ == <<"B", "M", "J">>

GroupNames == {"major_medical", "custom"}

GroupJournals(g) == IF g = "major_medical" THEN <<Lancet, NEJM>> ELSE <<BMJ>>

\* journal_config.json as load_journal_config returns it
Configs ==
    { [journal_groups |-> [g \in S |-> GroupJournals(g)], default_group |-> d] :
        S \in SUBSET GroupNames, d \in GroupNames }

\* the fallback of load_journal_config when the file is missing
FallbackConfig ==
    [journal_groups |-> [g \in {"major_medical"} |-> GroupJournals(g)],
     default_group |-> "major_medical"]

\* args.journals = <<>> stands for the option not given (None)
ArgSets ==
    [group : {"", "major_medical", "custom"},
     journals : {<<>>, <<BMJ>>, <<Lancet, NEJM>>}]

NoArgs == [group |-> "", journals |-> <<>>]

DefaultTypes == <<"Journal Article", "Clinical Trial", "Randomized Controlled Trial", "Review">>

(* An XML element that may be absent; its text may be None *)
NoElem == [present |-> FALSE, text |-> None]
Elem(t) == [present |-> TRUE, text |-> t]

BaseArticle ==
    [mc |-> TRUE, art |-> TRUE,
     pmid |-> Elem(Str(<<"101">>)),
     title |-> Elem(Str(<<"Trial", " ", "A">>)),
     journal |-> Elem(Str(<<"Lancet">>)),
     pubdate |-> [present |-> TRUE, year |-> Elem(Str(<<"2025">>)),
                  month |-> Elem(Str(<<"Apr">>)), day |-> Elem(Str(<<"20">>))],
     abstract |-> [present |-> TRUE,
                   parts |-> <<[label |-> None, text |-> Str(<<"Results">>)]>>],
     pubtypes |-> [present |-> TRUE, items |-> <<Str(<<"Review">>)>>]]

\* The PubmedArticle elements of the model: the well-formed one and the ones
\* that differ from it in one child element.
Elements ==
    { BaseArticle,
      [BaseArticle EXCEPT !.mc = FALSE],
      [BaseArticle EXCEPT !.art = FALSE],
      [BaseArticle EXCEPT !.pmid = Elem(None)],
      [BaseArticle EXCEPT !.title = NoElem],
      [BaseArticle EXCEPT !.title = Elem(None)],
      [BaseArticle EXCEPT !.journal = Elem(None)],
      [BaseArticle EXCEPT !.pubdate = [present |-> FALSE, year |-> NoElem,
                                       month |-> NoElem, day |-> NoElem]],
      [BaseArticle EXCEPT !.pubdate.month = NoElem, !.pubdate.day = Elem(None)],
      [BaseArticle EXCEPT !.abstract = [present |-> FALSE, parts |-> <<>>]],
      [BaseArticle EXCEPT !.abstract.parts =
          <<[label |-> Str(<<"METHODS">>), text |-> None],
            [label |-> None, text |-> Str(<<" ">>)]>>],
      [BaseArticle EXCEPT !.pubtypes = [present |-> FALSE, items |-> <<>>]],
      [BaseArticle EXCEPT !.pubtypes.items = <<Str(<<"Review">>), None>>] }

RECURSIVE SeqsUpTo(_, _)
SeqsUpTo(S, k) ==
    IF k = 0 THEN {<<>>}
    ELSE LET shorter == SeqsUpTo(S, k - 1)
         IN shorter \cup {Append(q, e) : q \in shorter, e \in S}

\* what efetch may answer: an empty body, a body that is not XML, or a
\* document with some PubmedArticle elements
Bodies ==
    {[kind |-> k, articles |-> <<>>] : k \in {"blank", "malformed"}}
    \cup {[kind |-> "xml", articles |-> a] : a \in SeqsUpTo(Elements, MaxArticles)}

-----------------------------------------------------------------------------
(* search_medical_papers.py: the per-article extraction *)

\* X.text if X is not None else ''
TextOrEmpty(el) == IF el.present THEN el.text ELSE Str(<<>>)

\* f"{year} {month} {day}".strip(), or '' when there is no PubDate
PublicationDate(pd) ==
    IF pd.present
    THEN Str(Strip(Fmt(TextOrEmpty(pd.year)) \o <<" ">> \o Fmt(TextOrEmpty(pd.month))
                   \o <<" ">> \o Fmt(TextOrEmpty(pd.day))))
    ELSE Str(<<>>)

\* one AbstractText: text = abstract_text.text or ''; labelled when Label is set
AbstractPart(p) ==
    LET text == IF p.text.t = "none" THEN <<>> ELSE p.text.s
    IN IF p.label.t = "str" /\ p.label.s # <<>>
       THEN p.label.s \o <<":", " ">> \o text
       ELSE text

AbstractOf(ab) ==
    IF ab.present
    THEN Str(Join(<<" ">>, [i \in 1..Len(ab.parts) |-> AbstractPart(ab.parts[i])]))
    ELSE Str(<<>>)

\* pub_types.append(pub_type.text) for every PublicationType
PubTypesOf(pt) == IF pt.present THEN pt.items ELSE <<>>

\* the paper dictionary built from one PubmedArticle
PaperOf(e) ==
    LET pmid == TextOrEmpty(e.pmid)
    IN [pubmed_id |-> pmid,
        title |-> TextOrEmpty(e.title),
        journal |-> TextOrEmpty(e.journal),
        publication_date |-> PublicationDate(e.pubdate),
        abstract |-> AbstractOf(e.abstract),
        url |-> Str(<<"https://pubmed.ncbi.nlm.nih.gov/">> \o Fmt(pmid) \o <<"/">>),
        publication_types |-> PubTypesOf(e.pubtypes)]

\* one pass of the loop body: elements without MedlineCitation or Article are skipped
ProcessElement(list, e) ==
    IF ~e.mc \/ ~e.art THEN list ELSE Append(list, PaperOf(e))

-----------------------------------------------------------------------------
(* search_medical_papers.py: the output file name *)

Lower(c) ==
    CASE c = "L" -> "l" [] c = "N" -> "n" [] c = "E" -> "e"
      [] c = "B" -> "b" [] c = "M" -> "m" [] c = "J" -> "j"
      [] OTHER -> c

IsAlnum(c) == c \notin {" ", ".", "_"}

RECURSIVE Simplify(_)
\* journals[0].replace(" ", "_").lower(), keeping alphanumerics and "_"
Simplify(name) ==
    IF name = <<>> THEN <<>>
    ELSE LET c == Lower(IF Head(name) = " " THEN "_" ELSE Head(name))
         IN (IF IsAlnum(c) \/ c = "_" THEN <<c>> ELSE <<>>) \o Simplify(Tail(name))

Today == "20250420"

FileName(group, js) ==
    IF group # "custom"
    THEN <<"medical_papers_", group, "_", Today, ".json">>
    ELSE IF Len(js) = 1
         THEN <<"medical_papers_">> \o Simplify(js[1]) \o <<"_", Today, ".json">>
         ELSE <<"medical_papers_custom_", ToString(Len(js)), "_journals_", Today, ".json">>

NoFile == [exists |-> FALSE, name |-> <<>>, content |-> <<>>]
File(name, content) == [exists |-> TRUE, name |-> name, content |-> content]

-----------------------------------------------------------------------------
(* search_medical_papers.py: the program *)

NoQuery == [journals |-> <<>>, article_types |-> <<>>, has_abstract |-> FALSE]

\* the names the module binds before the body of search_medical_papers runs:
\* group_name is assigned only by the __main__ block
ImportedGlobals == [name |-> "search_medical_papers"]
MainGlobals(group) == [name |-> "__main__", group_name |-> group]

\* A journal selection that gives --group precedence over --journals.
PickGroupFirst(a, c) ==
    IF a.group # "" /\ a.group \in DOMAIN c.journal_groups THEN "group"
    ELSE IF a.journals # <<>> THEN "journals"
    ELSE "default"

\* lines 238-251: which branch of the journal selection is taken
Pick(a, c) ==
    IF a.journals # <<>> THEN "journals"
    ELSE IF a.group # "" /\ a.group \in DOMAIN c.journal_groups THEN "group"
    ELSE "default"

\* the __main__ block up to the call of search_medical_papers: the journal
\* selection.  A lookup of a group the configuration lacks raises KeyError.
CliMain ==
    /\ script = "search_cli" /\ pc = "main"
    /\ LET groups == config.journal_groups
           dflt == config.default_group
           pick == Pick(args, config)
       IN IF pick = "default" /\ dflt \notin DOMAIN groups
          THEN /\ pc' = "raised" /\ exc' = "KeyError"
               /\ UNCHANGED <<journals, module_globals>>
          ELSE /\ journals' = CASE pick = "journals" -> args.journals
                                [] pick = "group" -> groups[args.group]
                                [] OTHER -> groups[dflt]
               /\ module_globals' = MainGlobals(CASE pick = "journals" -> "custom"
                                                  [] pick = "group" -> args.group
                                                  [] OTHER -> dflt)
               /\ pc' = "esearch" /\ exc' = exc
    /\ UNCHANGED <<script, args, config, query, root, idx, papers, saved, ret,
                   csv_file, analyzeVars>>

\* example.py main(): the journals of group major_medical, then the call
ExampleMain ==
    /\ script = "example" /\ pc = "main"
    /\ IF "major_medical" \in DOMAIN config.journal_groups
       THEN /\ journals' = config.journal_groups["major_medical"]
            /\ pc' = "esearch" /\ exc' = exc
       ELSE /\ pc' = "raised" /\ exc' = "KeyError"
            /\ journals' = journals
    /\ UNCHANGED <<script, args, config, module_globals, query, root, idx, papers,
                   saved, ret, csv_file, analyzeVars>>

\* the query and the esearch request; an empty id list returns []
Esearch ==
    /\ script \in {"search_cli", "example"} /\ pc = "esearch"
    /\ query' = [journals |-> IF journals = <<>> THEN <<Lancet, NEJM>> ELSE journals,
                 article_types |-> DefaultTypes, has_abstract |-> TRUE]
    /\ \E n_ids \in 0..MaxArticles :
          IF n_ids = 0
          THEN pc' = "done" /\ ret' = <<>>
          ELSE pc' = "efetch" /\ ret' = ret
    /\ UNCHANGED <<script, exc, args, config, module_globals, journals, root, idx,
                   papers, saved, csv_file, analyzeVars>>

\* the efetch request and the parse of its body
Efetch ==
    /\ script \in {"search_cli", "example"} /\ pc = "efetch"
    /\ \E body \in Bodies :
          IF body.kind = "xml"
          THEN /\ root' = body.articles /\ idx' = 1 /\ papers' = <<>>
               /\ pc' = "loop" /\ ret' = ret
          ELSE /\ pc' = "done" /\ ret' = <<>>
               /\ UNCHANGED <<root, idx, papers>>
    /\ UNCHANGED <<script, exc, args, config, module_globals, journals, query,
                   saved, csv_file, analyzeVars>>

\* one iteration of the loop over the PubmedArticle elements
ProcessArticle ==
    /\ script \in {"search_cli", "example"} /\ pc = "loop"
    /\ idx <= Len(root)
    /\ papers' = ProcessElement(papers, root[idx])
    /\ idx' = idx + 1
    /\ UNCHANGED <<script, pc, exc, csv_file, searchVars, analyzeVars>>

\* after the loop: the file name (which reads the global group_name), the
\* JSON dump and the return
SaveAndReturn ==
    /\ script \in {"search_cli", "example"} /\ pc = "loop"
    /\ idx > Len(root)
    /\ IF "group_name" \in DOMAIN module_globals
       THEN /\ saved' = File(FileName(module_globals.group_name, journals), papers)
            /\ ret' = papers
            /\ pc' = "done" /\ exc' = exc
       ELSE /\ pc' = "raised" /\ exc' = "NameError"
            /\ UNCHANGED <<saved, ret>>
    /\ UNCHANGED <<script, args, config, module_globals, journals, query, root, idx,
                   papers, csv_file, analyzeVars>>

NextSearch == CliMain \/ ExampleMain \/ Esearch \/ Efetch \/ ProcessArticle \/ SaveAndReturn

-----------------------------------------------------------------------------
(* analyze_papers.py: inputs *)

\* the JSON file given to the analysis holds papers as the search writes them
AnalyzeElements ==
    { BaseArticle,
      [BaseArticle EXCEPT !.pmid = Elem(Str(<<"102">>)),
                          !.title = Elem(Str(<<"Trial", " ", "B">>))],
      [BaseArticle EXCEPT !.abstract = [present |-> FALSE, parts |-> <<>>]],
      [BaseArticle EXCEPT !.abstract.parts = <<[label |-> None, text |-> Str(<<" ">>)]>>],
      [BaseArticle EXCEPT !.title = Elem(None)] }

AnalyzePapers == {PaperOf(e) : e \in AnalyzeElements}

\* max_papers: None, or any integer --max accepts
MaxPapersArgs == {None} \cup {Num(k) : k \in -1..MaxPapers}

max_retries == 3
ReportLimit == 20

HttpOutcomes == {"200", "non200", "timeout", "error"}

(* What the model may answer.  The text of a candidate is a sequence of     *)
(* segments: a code fence, whitespace, prose, or a JSON document.           *)
Seg(k) == [k |-> k, v |-> None]
Doc(v) == [k |-> "doc", v |-> v]

FullDict ==
    [is_relevant |-> TRUE, aspects |-> <<"Predictive">>, is_large_trial |-> TRUE,
     summary |-> Str(<<"Significant">>), revolutionary_aspects |-> Str(<<"New">>),
     impact_score |-> Num(5)]

\* dict d without the keys in ks
Without(d, ks) == [k \in DOMAIN d \ ks |-> d[k]]

LlmDicts ==
    LET scores == {[impact_score |-> Num(5)], [impact_score |-> Num(8)],
                   [impact_score |-> Num(11)], [impact_score |-> Str(<<"high">>)]}
        byScore == {[FullDict EXCEPT !.impact_score = sc.impact_score] : sc \in scores}
                   \cup {Without(FullDict, {"impact_score"})}
    IN byScore
       \cup {Without(d, {"revolutionary_aspects", "is_large_trial", "aspects", "summary"}) :
                d \in byScore}
       \cup {[FullDict EXCEPT !.is_relevant = FALSE], Without(FullDict, {"is_relevant"}),
             [FullDict EXCEPT !.revolutionary_aspects = None]}

\* json documents: a dict, a scalar, null
LlmDocs == LlmDicts \cup {Num(7), None}

LlmTexts ==
    UNION { { <<Doc(d)>>,
              <<Seg("fence_json"), Seg("ws"), Doc(d), Seg("ws"), Seg("fence")>>,
              <<Seg("prose"), Seg("fence"), Doc(d), Seg("fence"), Seg("prose")>>,
              <<Seg("prose"), Seg("ws"), Doc(d)>> } : d \in LlmDocs }

\* the body of a 200 response
ResponseBodies ==
    {[kind |-> k, text |-> <<>>] : k \in {"notjson", "nocandidates", "nocontent"}}
    \cup {[kind |-> "text", text |-> t] : t \in LlmTexts}

-----------------------------------------------------------------------------
(* analyze_papers.py: helpers *)

\* p['abstract'].strip() is truthy
HasAbstract(p) == Strip(p.abstract.s) # <<>>

\* papers_to_analyze as lines 45-57 compute it
PapersToAnalyze(list, maxp) ==
    LET with == SelectSeq(list, HasAbstract)
    IN IF maxp.t # "none" THEN SliceTo(with, maxp.n) ELSE with

\* position of the first segment of kind in ks, or 0
RECURSIVE Find(_, _, _)
Find(text, ks, from) ==
    IF from > Len(text) THEN 0
    ELSE IF text[from].k \in ks THEN from
    ELSE Find(text, ks, from + 1)

RECURSIVE StripWs(_)
StripWs(text) ==
    IF text # <<>> /\ Head(text).k = "ws" THEN StripWs(Tail(text))
    ELSE IF text # <<>> /\ text[Len(text)].k = "ws" THEN StripWs(SubSeq(text, 1, Len(text) - 1))
    ELSE text

\* text.split(fence)[1].split("```")[0]: what follows the fence at position at,
\* up to the next fence of any kind
AfterFence(text, at) ==
    LET close == Find(text, {"fence", "fence_json"}, at + 1)
    IN SubSeq(text, at + 1, IF close = 0 THEN Len(text) ELSE close - 1)

\* the json_str of lines 168-173
ExtractJson(text) ==
    LET fj == Find(text, {"fence_json"}, 1)
        f == Find(text, {"fence"}, 1)
    IN IF fj # 0 THEN StripWs(AfterFence(text, fj))
       ELSE IF f # 0 THEN StripWs(AfterFence(text, f))
       ELSE text

\* json.loads: a single document, surrounding whitespace allowed
JsonValid(json_str) == LET t == StripWs(json_str) IN Len(t) = 1 /\ t[1].k = "doc"
JsonLoads(json_str) == StripWs(json_str)[1].v

IsDict(v) == "t" \notin DOMAIN v

\* lines 178-198: the paper info and the defaults of the absent fields
Defaults ==
    [is_relevant |-> FALSE, aspects |-> <<>>, is_large_trial |-> FALSE,
     summary |-> Str(<<>>), revolutionary_aspects |-> None, impact_score |-> Num(0)]

PaperInfo(paper) ==
    [pubmed_id |-> paper.pubmed_id, title |-> paper.title, url |-> paper.url,
     journal |-> paper.journal, publication_date |-> paper.publication_date]

Complete(d, paper) ==
    [k \in DOMAIN d \cup DOMAIN Defaults \cup {"paper"} |->
        IF k = "paper" THEN PaperInfo(paper)
        ELSE IF k \in DOMAIN d THEN d[k] ELSE Defaults[k]]

NoAnalysis == [absent |-> TRUE]

\* lines 153-210: the analysis of one successful response, NoAnalysis for
\* Python's None.  A document that is not a dict is bound to analysis before
\* the item assignment raises inside the try, and stays bound.
Analysis(body, paper) ==
    IF body.kind # "text" THEN NoAnalysis
    ELSE LET json_str == ExtractJson(body.text)
         IN IF ~JsonValid(json_str) THEN NoAnalysis
            ELSE LET v == JsonLoads(json_str)
                 IN IF IsDict(v) THEN Complete(v, paper)
                    ELSE IF v = None THEN NoAnalysis
                    ELSE v

\* An append that keeps one dict object for every paper, so that every entry
\* of the list shows the latest analysis.
AddAnalysisShared(res, analysis) ==
    IF analysis = [absent |-> TRUE] THEN res
    ELSE [i \in 1..(Len(res) + 1) |-> analysis]

\* results after the step at lines 212-214
AddAnalysis(res, analysis) ==
    IF analysis = NoAnalysis THEN res ELSE Append(res, analysis)

Truthy(v) == CASE v.t = "none" -> FALSE [] v.t = "str" -> v.s # <<>> [] OTHER -> v.n # 0

\* paper_sort_key
SortKey(p) ==
    [score |-> p.impact_score,
     rev |-> IF Truthy(p.revolutionary_aspects) THEN 1 ELSE 0,
     large |-> IF p.is_large_trial THEN 1 ELSE 0]

\* tuple comparison a < b of two keys whose scores have one type; the model
\* has one string score, so two string scores are equal
KeyLess(a, b) ==
    LET sa == IF a.score.t = "int" THEN a.score.n ELSE 0
        sb == IF b.score.t = "int" THEN b.score.n ELSE 0
    IN \/ sa < sb
       \/ sa = sb /\ a.rev < b.rev
       \/ sa = sb /\ a.rev = b.rev /\ a.large < b.large

\* comparing an int score with a str score raises TypeError
SortRaises(list) ==
    \E i, j \in 1..Len(list) : list[i].impact_score.t # list[j].impact_score.t

RECURSIVE InsertDesc(_, _)
\* insert p after every element whose key is not less than p's (stable)
InsertDesc(sorted, p) ==
    IF sorted = <<>> THEN <<p>>
    ELSE IF KeyLess(SortKey(Head(sorted)), SortKey(p)) THEN <<p>> \o sorted
    ELSE <<Head(sorted)>> \o InsertDesc(Tail(sorted), p)

RECURSIVE SortDesc(_)
\* list.sort(key=paper_sort_key, reverse=True)
SortDesc(list) ==
    IF list = <<>> THEN <<>>
    ELSE InsertDesc(SortDesc(SubSeq(list, 1, Len(list) - 1)), list[Len(list)])

IsRelevant(p) == p.is_relevant

\* one detailed entry of the Markdown report
MarkdownEntry(p) ==
    [title |-> Fmt(p.paper.title), journal |-> Fmt(p.paper.journal),
     impact_score |-> p.impact_score,
     is_large_trial |-> IF p.is_large_trial THEN "Yes" ELSE "No",
     revolutionary |-> IF Truthy(p.revolutionary_aspects)
                       THEN p.revolutionary_aspects.s ELSE <<>>,
     url |-> p.paper.url.s]

MarkdownOf(list) ==
    LET top == SubSeq(list, 1, Min(ReportLimit, Len(list)))
    IN [i \in 1..Len(top) |-> MarkdownEntry(top[i])]

-----------------------------------------------------------------------------
(* analyze_papers.py: the program *)

\* lines 34-60: load, filter, limit
AnalyzeLoad ==
    /\ script = "analyze" /\ pc = "main"
    /\ LET todo == PapersToAnalyze(papers, max_papers)
       IN IF papers = <<>> \/ SelectSeq(papers, HasAbstract) = <<>>
          THEN pc' = "done" /\ UNCHANGED <<papers_to_analyze, idx>>
          ELSE pc' = "paper" /\ papers_to_analyze' = todo /\ idx' = 1
    /\ UNCHANGED <<script, exc, papers, csv_file, searchVars, max_papers, retry_count,
                   success, inflight, last_outcome, sent, attempts, results, json_out,
                   relevant_papers, markdown>>

\* lines 63-102: the head of the for loop; paper['title'][:50] raises
\* TypeError when the title is None
BeginPaper ==
    /\ script = "analyze" /\ pc = "paper"
    /\ idx <= Len(papers_to_analyze)
    /\ IF papers_to_analyze[idx].title.t = "none"
       THEN /\ pc' = "raised" /\ exc' = "TypeError"
            /\ UNCHANGED <<retry_count, success, last_outcome, attempts>>
       ELSE /\ pc' = "while" /\ exc' = exc
            /\ retry_count' = 0 /\ success' = FALSE
            /\ last_outcome' = "none" /\ attempts' = 0
    /\ UNCHANGED <<script, idx, papers, csv_file, searchVars, max_papers,
                   papers_to_analyze, inflight, sent, results, json_out,
                   relevant_papers, markdown>>

\* A loop condition that does not stop on success.
RetryLoopIgnoresSuccess == retry_count < max_retries

\* the condition of the while loop at line 104
RetryLoopContinues == retry_count < max_retries /\ ~success

\* requests.post is called
IssueRequest ==
    /\ script = "analyze" /\ pc = "while"
    /\ RetryLoopContinues
    /\ inflight' = inflight \cup {idx}
    /\ attempts' = attempts + 1
    /\ sent' = IF attempts = 0 THEN Append(sent, papers_to_analyze[idx]) ELSE sent
    /\ pc' = "await"
    /\ UNCHANGED <<script, exc, idx, papers, csv_file, searchVars, max_papers,
                   papers_to_analyze, retry_count, success, last_outcome, results,
                   json_out, relevant_papers, markdown>>

\* requests.post returns or raises: lines 128-150
CompleteRequest ==
    /\ script = "analyze" /\ pc = "await"
    /\ \E outcome \in HttpOutcomes :
          /\ last_outcome' = outcome
          /\ IF outcome = "200"
             THEN success' = TRUE /\ retry_count' = retry_count
             ELSE success' = success /\ retry_count' = retry_count + 1
    /\ inflight' = inflight \ {idx}
    /\ pc' = "while"
    /\ UNCHANGED <<script, exc, idx, papers, csv_file, searchVars, max_papers,
                   papers_to_analyze, sent, attempts, results, json_out,
                   relevant_papers, markdown>>

\* lines 152-214: after the while loop, parse the response and append
ParseResponse ==
    /\ script = "analyze" /\ pc = "while"
    /\ ~RetryLoopContinues
    /\ IF success
       THEN \E body \in ResponseBodies :
               results' = AddAnalysis(results, Analysis(body, papers_to_analyze[idx]))
       ELSE results' = results
    /\ idx' = idx + 1
    /\ pc' = "paper"
    /\ UNCHANGED <<script, exc, papers, csv_file, searchVars, max_papers,
                   papers_to_analyze, retry_count, success, inflight, last_outcome,
                   sent, attempts, json_out, relevant_papers, markdown>>

\* lines 216-219: the JSON dump of results
SaveResults ==
    /\ script = "analyze" /\ pc = "paper"
    /\ idx > Len(papers_to_analyze)
    /\ json_out' = File(<<"4p_analysis_gemini_", Today, ".json">>, results)
    /\ pc' = "report"
    /\ UNCHANGED <<script, exc, idx, papers, csv_file, searchVars, max_papers,
                   papers_to_analyze, retry_count, success, inflight, last_outcome,
                   sent, attempts, results, relevant_papers, markdown>>

\* lines 221-295: filter, sort, Markdown report, return.  p.get on a result
\* that is not a dict raises AttributeError.
Report ==
    /\ script = "analyze" /\ pc = "report"
    /\ IF \E i \in 1..Len(results) : ~IsDict(results[i])
       THEN /\ pc' = "raised" /\ exc' = "AttributeError"
            /\ UNCHANGED <<relevant_papers, markdown>>
       ELSE LET relevant == SelectSeq(results, IsRelevant)
            IN IF SortRaises(relevant)
               THEN /\ pc' = "raised" /\ exc' = "TypeError"
                    /\ relevant_papers' = relevant
                    /\ markdown' = markdown
               ELSE /\ pc' = "done" /\ exc' = exc
                    /\ relevant_papers' = SortDesc(relevant)
                    /\ markdown' = MarkdownOf(SortDesc(relevant))
    /\ UNCHANGED <<script, idx, papers, csv_file, searchVars, max_papers,
                   papers_to_analyze, retry_count, success, inflight, last_outcome,
                   sent, attempts, results, json_out>>

NextAnalyze ==
    AnalyzeLoad \/ BeginPaper \/ IssueRequest \/ CompleteRequest \/ ParseResponse
    \/ SaveResults \/ Report

-----------------------------------------------------------------------------
(* convert_to_csv.py *)

\* the papers of the JSON file: what the search writes, and records with
\* other key sets (an authors list, absent keys)
ConvertPapers ==
    {PaperOf(e) : e \in {x \in Elements : x.mc /\ x.art}}
    \cup { [pubmed_id |-> Str(<<"103">>), title |-> Str(<<"Trial", " ", "C">>),
            authors |-> <<Str(<<"Roe">>), Str(<<"Doe">>)>>],
           [abstract |-> Str(<<"Results">>)] }

fields ==
    <<"pubmed_id", "title", "journal", "publication_date", "url", "authors",
      "abstract", "publication_types">>

\* paper.get(key, default)
Get(paper, key, default) == IF key \in DOMAIN paper THEN paper[key] ELSE default

\* the text csv.writer writes for a cell: None is written as the empty string
Cell(v) == IF v.t = "none" THEN <<>> ELSE v.s

\* '; '.join(list) raises TypeError on an item that is not a str
JoinRaises(list) == \E i \in 1..Len(list) : list[i].t # "str"
JoinCell(list) == Join(<<";", " ">>, [i \in 1..Len(list) |-> list[i].s])

RowRaises(paper) ==
    \/ JoinRaises(Get(paper, "authors", <<>>))
    \/ JoinRaises(Get(paper, "publication_types", <<>>))

\* lines 38-47
Row(paper) ==
    << Cell(Get(paper, "pubmed_id", Str(<<>>))),
       Cell(Get(paper, "title", Str(<<>>))),
       Cell(Get(paper, "journal", Str(<<>>))),
       Cell(Get(paper, "publication_date", Str(<<>>))),
       Cell(Get(paper, "url", Str(<<>>))),
       JoinCell(Get(paper, "authors", <<>>)),
       Cell(Get(paper, "abstract", Str(<<>>))),
       JoinCell(Get(paper, "publication_types", <<>>)) >>

CsvName == <<"medical_papers_major_medical_", Today, ".csv">>

\* lines 9-34: load; an empty list returns before the file is opened;
\* otherwise the file is created and the header written
ConvertOpen ==
    /\ script = "convert" /\ pc = "main"
    /\ IF papers = <<>>
       THEN pc' = "done" /\ UNCHANGED <<csv_file, idx>>
       ELSE pc' = "rows" /\ csv_file' = File(CsvName, <<fields>>) /\ idx' = 1
    /\ UNCHANGED <<script, exc, papers, searchVars, analyzeVars>>

\* lines 37-48: one data row
ConvertRow ==
    /\ script = "convert" /\ pc = "rows"
    /\ idx <= Len(papers)
    /\ IF RowRaises(papers[idx])
       THEN /\ pc' = "raised" /\ exc' = "TypeError"
            /\ UNCHANGED <<csv_file, idx>>
       ELSE /\ csv_file' = [csv_file EXCEPT !.content = Append(@, Row(papers[idx]))]
            /\ idx' = idx + 1
            /\ UNCHANGED <<pc, exc>>
    /\ UNCHANGED <<script, papers, searchVars, analyzeVars>>

\* lines 50-51: the file is closed, the function returns
ConvertDone ==
    /\ script = "convert" /\ pc = "rows"
    /\ idx > Len(papers)
    /\ pc' = "done"
    /\ UNCHANGED <<script, exc, idx, papers, csv_file, searchVars, analyzeVars>>

NextConvert == ConvertOpen \/ ConvertRow \/ ConvertDone

InitCommon ==
    /\ pc = "main" /\ exc = "none"
    /\ journals = <<>> /\ query = NoQuery /\ root = <<>> /\ idx = 1
    /\ saved = NoFile /\ ret = <<>>
    /\ papers_to_analyze = <<>> /\ retry_count = 0 /\ success = FALSE
    /\ inflight = {} /\ last_outcome = "none" /\ sent = <<>> /\ attempts = 0
    /\ results = <<>> /\ json_out = NoFile /\ relevant_papers = <<>>
    /\ markdown = <<>> /\ csv_file = NoFile

InitSearchCli ==
    /\ script = "search_cli"
    /\ args \in ArgSets /\ config \in Configs
    /\ module_globals = [name |-> "__main__"]
    /\ papers = <<>> /\ max_papers = None

InitExample ==
    /\ script = "example"
    /\ args = NoArgs /\ config \in Configs
    /\ module_globals = ImportedGlobals
    /\ papers = <<>> /\ max_papers = None

InitAnalyze ==
    /\ script = "analyze"
    /\ args = NoArgs /\ config = FallbackConfig
    /\ module_globals = ImportedGlobals
    /\ papers \in SeqsUpTo(AnalyzePapers, MaxPapers)
    /\ max_papers \in MaxPapersArgs

InitConvert ==
    /\ script = "convert"
    /\ args = NoArgs /\ config = FallbackConfig
    /\ module_globals = ImportedGlobals
    /\ papers \in SeqsUpTo(ConvertPapers, MaxPapers)
    /\ max_papers = None

Init == InitCommon /\ (InitSearchCli \/ InitExample \/ InitAnalyze \/ InitConvert)

Next == NextSearch \/ NextAnalyze \/ NextConvert

Spec == Init /\ [][Next]_vars

-----------------------------------------------------------------------------
(* Properties *)

SearchScripts == {"search_cli", "example"}

\* C1: a call of search_medical_papers from another module (example.py) never
\* ends in an uncaught exception once the call has started.
C1_ImportedCallCompletes ==
    (script = "example" /\ query # NoQuery) => pc # "raised"

FailedOutcomes == {"timeout", "non200", "error"}

\* C2 (as stated): a second or third request for a paper is issued only after
\* the preceding attempt for that paper timed out.
C2_RetryOnlyAfterTimeout ==
    (script = "analyze" /\ pc = "await" /\ attempts > 1) => last_outcome = "timeout"

\* C2 (amended): requests are strictly sequential: at most one request is
\* outstanding, it belongs to the current paper, and none is outstanding when
\* the loop moves on; every paper the loop has passed got a request; a further
\* request for the same paper is issued only after the preceding attempt for
\* it failed (timeout, non-200 status or another request error).
C2_SequentialRetryOnFailure ==
    script = "analyze" =>
        /\ Cardinality(inflight) <= 1
        /\ pc = "await" => inflight = {idx}
        /\ pc # "await" => inflight = {}
        /\ pc = "paper" => sent = SubSeq(papers_to_analyze, 1, idx - 1)
        /\ (pc = "await" /\ attempts = 1) => last_outcome = "none"
        /\ (pc = "await" /\ attempts > 1) => last_outcome \in FailedOutcomes

C2_Witness ==
    /\ script = "analyze" /\ pc = "await" /\ idx = 2
    /\ attempts = 3 /\ last_outcome = "non200"

\* C3: every record of results has an integer impact_score in 1..10.
C3_ImpactScoreInRange ==
    \A i \in 1..Len(results) :
        /\ IsDict(results[i])
        /\ results[i].impact_score.t = "int"
        /\ results[i].impact_score.n \in 1..10

IsPrefix(a, b) == Len(a) <= Len(b) /\ \A i \in 1..Len(a) : b[i] = a[i]

Range(list) == {list[i] : i \in 1..Len(list)}

\* C4: no step changes an article already in the output list of the search or
\* an assessment already in results; the saved files, the filtered and sorted
\* list hold those records as they are.
C4_RecordsImmutable ==
    [][ /\ IsPrefix(papers, papers')
        /\ IsPrefix(results, results')
        /\ Range(relevant_papers') \subseteq Range(results')
        /\ json_out'.exists => json_out'.content = results'
        /\ saved'.exists => saved'.content = papers' ]_vars

C4_Witness ==
    /\ script = "analyze" /\ pc = "done"
    /\ Len(results) = 2 /\ Len(relevant_papers) = 2
    /\ relevant_papers[1] = results[2] /\ relevant_papers[2] = results[1]
    /\ results[1] # results[2]
    /\ Len(markdown) = 2 /\ json_out.exists

\* C5: every article the search emits has string identifier, title, journal,
\* publication date, abstract and URL, and only strings in publication_types.
C5_ArticleFieldsAreStrings ==
    script \in SearchScripts =>
        \A i \in 1..Len(papers) :
            LET p == papers[i]
            IN /\ IsStr(p.pubmed_id) /\ IsStr(p.title) /\ IsStr(p.journal)
               /\ IsStr(p.publication_date) /\ IsStr(p.abstract) /\ IsStr(p.url)
               /\ \A j \in 1..Len(p.publication_types) : IsStr(p.publication_types[j])

\* C6: once the loop over the papers has finished, the papers a request was
\* sent for are the first max_papers (none for max_papers <= 0) papers with a
\* non-blank abstract, in input order; all of them when max_papers is None.
C6_FirstMaxPapersSent ==
    (script = "analyze" /\ pc \in {"report", "done"}) =>
        LET with == SelectSeq(papers, HasAbstract)
            expected == IF max_papers = None THEN with
                        ELSE SubSeq(with, 1, Min(Max(max_papers.n, 0), Len(with)))
        IN /\ sent = expected
           /\ max_papers # None => Len(sent) <= Max(max_papers.n, 0)

\* C7: once the CLI has selected the journals: --journals wins and is named
\* "custom"; else a --group of the configuration; else the default group.  The
\* query searches the selected journals, they are those of the group whose
\* name is used (or the --journals list under "custom"), and the file is named
\* after that name.  The selection fails (KeyError) only when the default
\* group is needed and the configuration lacks it.
C7_JournalPrecedence ==
    script = "search_cli" =>
        LET groups == config.journal_groups
            dflt == config.default_group
            useDefault == args.journals = <<>> /\ args.group \notin DOMAIN groups
        IN /\ pc = "raised" => (useDefault /\ dflt \notin DOMAIN groups)
           /\ pc \notin {"main", "raised"} =>
                LET name == module_globals.group_name
                IN /\ args.journals # <<>> => (journals = args.journals /\ name = "custom")
                   /\ (args.journals = <<>> /\ args.group \in DOMAIN groups) =>
                         (journals = groups[args.group] /\ name = args.group)
                   /\ useDefault => (journals = groups[dflt] /\ name = dflt)
                   /\ \/ name \in DOMAIN groups /\ journals = groups[name]
                      \/ name = "custom" /\ journals = args.journals
                   /\ query # NoQuery => query.journals = journals
                   /\ saved.exists => saved.name = FileName(name, journals)

C7_Witness ==
    /\ script = "search_cli" /\ pc = "done" /\ saved.exists
    /\ args.journals = <<>> /\ args.group = "custom"
    /\ "custom" \notin DOMAIN config.journal_groups
    /\ module_globals.group_name = "major_medical"
    /\ query.journals = <<Lancet, NEJM>>
    /\ Len(saved.content) = 2

\* C8: convert_json_to_csv ends with the header and one 8-column row per paper,
\* in input order, absent fields as empty cells; on an empty list no file.
C8_OneRowPerPaper ==
    (script = "convert" /\ pc \in {"done", "raised"}) =>
        IF papers = <<>> THEN ~csv_file.exists
        ELSE /\ pc = "done" /\ csv_file.exists
             /\ Len(csv_file.content) = Len(papers) + 1
             /\ csv_file.content[1] = fields
             /\ \A i \in 1..Len(papers) :
                   /\ Len(csv_file.content[i + 1]) = 8
                   /\ csv_file.content[i + 1] = Row(papers[i])

====
